---- MODULE Spec2Model ----
(***************************************************************************)
(* TrackGPT, transcriber.py: transcribe_file and its chunking path         *)
(* (_transcribe_large_file, _create_chunk_file, _cleanup_temp_files).      *)
(*                                                                         *)
(* One run of transcribe_file is a sequential process; each action below   *)
(* is one step of it that ends in a call to the outside world (the         *)
(* transcription service, ffprobe, ffmpeg, the file system).  The outcome  *)
(* of each such call is chosen nondeterministically.                       *)
(*                                                                         *)
(* Python floats are modelled as exact rationals <<numerator, denominator>>*)
(* in lowest terms: the arithmetic of lines 72-89 is carried out without   *)
(* rounding.  Texts are sequences of one-character strings.                *)
(***************************************************************************)
EXTENDS Integers, Sequences, FiniteSets, TLC

\* ------------------------------------------------------------------ bounds

\* overlap_seconds ranges over 0..MaxOverlap
MaxOverlap == 2
\* only durations whose plan has at most MaxChunks chunks are probed
MaxChunks == 3

\* --------------------------------------------------------------- constants

CHUNK_SIZE_LIMIT == 24 * 1024 * 1024

\* ------------------------------------------------ exact rational arithmetic

Abs(n) == IF n < 0 THEN -n ELSE n

\* Euclid's algorithm
Euclid[a \in Nat, b \in Nat] == IF b = 0 THEN a ELSE Euclid[b, a % b]

GCD(a, b) == Euclid[a, b]

\* n/d in lowest terms with a positive denominator (d # 0)
Q(n, d) ==
    LET g == GCD(Abs(n), Abs(d))
        s == IF d < 0 THEN -1 ELSE 1
    IN  <<s * (n \div g), s * (d \div g)>>

QInt(n) == <<n, 1>>

QAdd(x, y) == Q(x[1] * y[2] + y[1] * x[2], x[2] * y[2])

QSub(x, y) == Q(x[1] * y[2] - y[1] * x[2], x[2] * y[2])

\* cross-cancelling keeps the intermediate products small
QMul(x, y) ==
    LET g1 == GCD(Abs(x[1]), y[2])
        g2 == GCD(Abs(y[1]), x[2])
    IN  Q((x[1] \div g1) * (y[1] \div g2), (x[2] \div g2) * (y[2] \div g1))

\* y # 0
QDiv(x, y) == QMul(x, Q(y[2], y[1]))

QLess(x, y) == x[1] * y[2] < y[1] * x[2]

QLeq(x, y) == x[1] * y[2] <= y[1] * x[2]

QMax(x, y) == IF QLess(x, y) THEN y ELSE x

QMin(x, y) == IF QLess(y, x) THEN y ELSE x

\* math.ceil(x)
QCeil(x) == -((-x[1]) \div x[2])

\* ------------------------------------------------------------ chunk planner

\* the float literals 0.95 (line 73) and 0.1 (line 74)
SAFETY_FACTOR == Q(95, 100)

MIN_STRIDE == Q(1, 10)

\* avg_bitrate = (file_size * 8) / total_duration
AvgBitrate(size, total) == QDiv(QInt(size * 8), total)

\* max_chunk_duration = (CHUNK_SIZE_LIMIT * 8) / avg_bitrate * 0.95
MaxChunkDuration(size, total) ==
    QMul(QDiv(QInt(CHUNK_SIZE_LIMIT * 8), AvgBitrate(size, total)), SAFETY_FACTOR)

\* mutant: the stride has no floor
EffectiveChunkDuration_NoFloor(mcd, overlap) == QSub(mcd, QInt(overlap))

\* mutant: the overlap is not subtracted from the stride
EffectiveChunkDuration_NoOverlap(mcd, overlap) == QMax(mcd, MIN_STRIDE)

\* effective_chunk_duration = max(max_chunk_duration - overlap_seconds, 0.1)
EffectiveChunkDuration(mcd, overlap) == QMax(QSub(mcd, QInt(overlap)), MIN_STRIDE)

\* int(x): truncation toward zero
QTrunc(x) == IF x[1] >= 0 THEN x[1] \div x[2] ELSE -((-x[1]) \div x[2])

\* mutant: int() in place of math.ceil()
NumChunks_Truncated(total, eff) == QTrunc(QDiv(total, eff))

\* num_chunks = math.ceil(total_duration / effective_chunk_duration)
NumChunks(total, eff) == QCeil(QDiv(total, eff))

\* start_time = i * effective_chunk_duration
StartTime(index, eff) == QMul(QInt(index), eff)

\* if start_time >= total_duration: break
PlanStops(start, total) == QLeq(total, start)

\* mutant: the end of the range is not cut at the end of the audio
EndTime_Unclamped(total, start, mcd) == QAdd(start, mcd)

\* end_time = min(total_duration, start_time + max_chunk_duration)
EndTime(total, start, mcd) == QMin(total, QAdd(start, mcd))

\* chunk_path: "<stem>_part<index+1><suffix>" in the temp directory; for one
\* source the part number identifies the path
ChunkPath(index) == index + 1

\* ------------------------------------------------------------------- texts

SPACE == <<" ">>

\* " ".join(transcripts)
RECURSIVE JoinTexts(_)
JoinTexts(ts) ==
    IF ts = <<>> THEN <<>>
    ELSE IF Len(ts) = 1 THEN ts[1]
    ELSE ts[1] \o SPACE \o JoinTexts(Tail(ts))

\* ------------------------------------------------------------------ inputs

\* texts the transcription service may return
Texts == {<<"a">>, <<"b">>}

\* outcomes of openai.audio.transcriptions.create: a text, or an exception
SvcOutcomes ==
    {[ok |-> FALSE, text |-> <<>>]} \cup {[ok |-> TRUE, text |-> t] : t \in Texts}

\* sizes of the audio file, in bytes
FileSizes ==
    {CHUNK_SIZE_LIMIT - 1, CHUNK_SIZE_LIMIT, (3 * CHUNK_SIZE_LIMIT) \div 2,
     2 * CHUNK_SIZE_LIMIT, 3 * CHUNK_SIZE_LIMIT}

\* durations ffprobe may report, in seconds
Durations == {Q(0, 1), Q(3, 10), Q(1, 1), Q(70, 1)}

\* sizes os.path.getsize may report for a chunk file
ChunkSizes == {CHUNK_SIZE_LIMIT, CHUNK_SIZE_LIMIT + 1}

\* --------------------------------------------------------------- results

None == [kind |-> "none", msg |-> "", text |-> <<>>]

Ok(t) == [kind |-> "ok", msg |-> "", text |-> t]

Err(kind, msg) == [kind |-> kind, msg |-> msg, text |-> <<>>]

\* ------------------------------------------------------------------- state

VARIABLES
    pc,                    \* where the run is: "size_check", "loop", "transcribe",
                           \* "cleanup", "unlink", "done"
    file_size,             \* os.path.getsize(audio_path)
    overlap_seconds,       \* the overlap_seconds argument
    win32,                 \* sys.platform == "win32"
    total_duration,        \* the duration ffprobe reported
    max_chunk_duration,    \* the plan's parameters (lines 73-75)
    effective_chunk_duration,
    num_chunks,
    i,                     \* the chunk loop's index
    transcripts,           \* texts of the chunks transcribed so far
    temp_files_to_delete,  \* chunk paths registered for cleanup
    chunk_size,            \* measured size of the chunk just extracted
    pending,               \* the exception in flight while the finally block runs
    pos,                   \* cleanup: position in the list of paths (from 1)
    attempt,               \* cleanup: the retry loop's attempt (from 0)
    failed_deletions,      \* cleanup: files that could not be deleted
    fs,                    \* chunk paths that exist in the temp directory
    result,                \* what transcribe_file returned or raised
    probeLog,              \* history: outcomes of the ffprobe calls
    extractLog,            \* history: the ffmpeg calls, with their ranges
    svcLog,                \* history: the transcription-service calls
    unlinked,              \* history: the paths unlink was called on
    last_unlink,           \* history: the outcome of the latest unlink call
    cleaned,               \* history: _cleanup_temp_files has been called
    analyzer,              \* analyzer.py: one call of legacy_analyze_transcript
    downloader,            \* downloader.py: one call of download_audio
    pipeline,              \* main.py: one run of main()
    runs                   \* transcriber.py: two runs that share the temp directory

\* the variables of transcriber.py
engine == <<pc, file_size, overlap_seconds, win32, total_duration,
          max_chunk_duration, effective_chunk_duration, num_chunks, i, transcripts,
          temp_files_to_delete, chunk_size, pending, pos, attempt,
          failed_deletions, fs, result, probeLog, extractLog, svcLog, unlinked, last_unlink, cleaned>>

\* the variables of the modules around it
glue == <<analyzer, downloader, pipeline, runs>>

vars == <<engine, glue>>

\* a module that is not called in the runs under study
NotRunning == [pc |-> "idle"]

GlueIdle ==
    /\ analyzer = NotRunning
    /\ downloader = NotRunning
    /\ pipeline = NotRunning
    /\ runs = NotRunning

\* transcriber.py is not called in the runs of the other modules
EngineIdle ==
    /\ pc = "idle"
    /\ file_size = 0
    /\ overlap_seconds = 0
    /\ win32 = FALSE
    /\ total_duration = Q(0, 1)
    /\ max_chunk_duration = Q(0, 1)
    /\ effective_chunk_duration = Q(0, 1)
    /\ num_chunks = 0
    /\ i = 0
    /\ transcripts = <<>>
    /\ temp_files_to_delete = <<>>
    /\ chunk_size = 0
    /\ pending = None
    /\ pos = 1
    /\ attempt = 0
    /\ failed_deletions = 0
    /\ fs = {}
    /\ result = None
    /\ probeLog = <<>>
    /\ extractLog = <<>>
    /\ svcLog = <<>>
    /\ unlinked = {}
    /\ last_unlink = "none"
    /\ cleaned = FALSE

Init ==
    /\ GlueIdle
    /\ pc = "size_check"
    /\ file_size \in FileSizes
    /\ overlap_seconds \in 0..MaxOverlap
    /\ win32 \in BOOLEAN
    /\ total_duration = Q(0, 1)
    /\ max_chunk_duration = Q(0, 1)
    /\ effective_chunk_duration = Q(0, 1)
    /\ num_chunks = 0
    /\ i = 0
    /\ transcripts = <<>>
    /\ temp_files_to_delete = <<>>
    /\ chunk_size = 0
    /\ pending = None
    /\ pos = 1
    /\ attempt = 0
    /\ failed_deletions = 0
    /\ fs = {}
    /\ result = None
    /\ probeLog = <<>>
    /\ extractLog = <<>>
    /\ svcLog = <<>>
    /\ unlinked = {}
    /\ last_unlink = "none"
    /\ cleaned = FALSE

\* ------------------------------------------------------ transcribe_file

\* mutant: the limit itself is sent down the chunking path
IsDirect_Strict(size) == size < CHUNK_SIZE_LIMIT

\* if file_size <= CHUNK_SIZE_LIMIT (line 40)
IsDirect(size) == size <= CHUNK_SIZE_LIMIT

\* lines 42-52: one request for the whole file
DirectResult(o) ==
    IF o.ok THEN Ok(o.text) ELSE Err("RuntimeError", "Direct transcription failed")

DirectTranscribe ==
    /\ pc = "size_check"
    /\ UNCHANGED glue
    /\ IsDirect(file_size)
    /\ \E o \in SvcOutcomes :
        /\ svcLog' = Append(svcLog, [chunk |-> 0, ok |-> o.ok, text |-> o.text])
        /\ result' = DirectResult(o)
    /\ pc' = "done"
    /\ UNCHANGED <<file_size, overlap_seconds, win32, total_duration, max_chunk_duration,
                   effective_chunk_duration, num_chunks, i, transcripts,
                   temp_files_to_delete, chunk_size, pending, pos, attempt,
                   failed_deletions, fs, probeLog, extractLog, unlinked, last_unlink, cleaned>>

\* ------------------------------------------------ _transcribe_large_file

\* durations ffprobe and float() can return: those whose plan stays within
\* MaxChunks
ProbeDurations ==
    {d \in Durations :
        \/ d[1] = 0
        \/ NumChunks(d, EffectiveChunkDuration(MaxChunkDuration(file_size, d),
                                               overlap_seconds)) <= MaxChunks}

\* mutant: a failed probe falls back to one request for the whole file
ProbeFailed_Fallback ==
    /\ \E o \in SvcOutcomes :
        /\ svcLog' = Append(svcLog, [chunk |-> 0, ok |-> o.ok, text |-> o.text])
        /\ result' = DirectResult(o)
    /\ pc' = "done"
    /\ UNCHANGED <<total_duration, max_chunk_duration, effective_chunk_duration,
                   num_chunks>>

\* lines 67-69: the probe threw; the error is raised, nothing else is tried
ProbeFailed ==
    /\ result' = Err("RuntimeError", "Failed to get audio duration")
    /\ pc' = "done"
    /\ UNCHANGED <<total_duration, max_chunk_duration, effective_chunk_duration,
                   num_chunks, svcLog>>

\* lines 59-78: the duration probe and the plan's parameters
DurationProbe ==
    /\ pc = "size_check"
    /\ UNCHANGED glue
    /\ ~IsDirect(file_size)
    /\ \/ /\ probeLog' = Append(probeLog, FALSE)
          /\ ProbeFailed
       \/ \E d \in ProbeDurations :
          /\ probeLog' = Append(probeLog, TRUE)
          /\ IF d[1] = 0
               \* line 72 divides by total_duration, outside any try block
               THEN /\ result' = Err("ZeroDivisionError", "float division by zero")
                    /\ pc' = "done"
                    /\ total_duration' = d
                    /\ UNCHANGED <<max_chunk_duration, effective_chunk_duration,
                                   num_chunks, svcLog>>
               ELSE LET mcd == MaxChunkDuration(file_size, d)
                        eff == EffectiveChunkDuration(mcd, overlap_seconds)
                    IN  /\ total_duration' = d
                        /\ max_chunk_duration' = mcd
                        /\ effective_chunk_duration' = eff
                        /\ num_chunks' = NumChunks(d, eff)
                        /\ pc' = "loop"
                        /\ UNCHANGED <<result, svcLog>>
    /\ UNCHANGED <<file_size, overlap_seconds, win32, i, transcripts,
                   temp_files_to_delete, chunk_size, pending, pos, attempt,
                   failed_deletions, fs, extractLog, unlinked, last_unlink, cleaned>>

\* outcomes of subprocess.run(['ffmpeg', ...], check=True): exit status 0, a
\* non-zero exit status, or the process could not be started
ExtractOutcomes == {"ok", "CalledProcessError", "OSError"}

\* lines 127-138: only CalledProcessError is caught and wrapped
ExtractFailure(o) ==
    IF o = "CalledProcessError"
        THEN Err("RuntimeError", "Failed to create audio chunk")
        ELSE Err(o, "ffmpeg could not be started")

\* mutant: the path is registered before ffmpeg is run
Register_BeforeExtraction(files, path, o) == Append(files, path)

\* lines 90-91: the path is registered once _create_chunk_file has returned it
Register(files, path, o) == IF o = "ok" THEN Append(files, path) ELSE files

\* mutant: the exception leaves the function past the finally block
ExtractFailed_NoFinally(o) ==
    /\ result' = ExtractFailure(o)
    /\ pc' = "done"
    /\ UNCHANGED <<pending, pos, cleaned>>

\* lines 83, 113-114: the exception leaves the loop; the finally block runs
ExtractFailed(o) ==
    /\ pending' = ExtractFailure(o)
    /\ pos' = 1
    /\ cleaned' = TRUE
    /\ pc' = "cleanup"
    /\ UNCHANGED result

\* lines 84-97, 122-140: the loop's head and _create_chunk_file
ExtractChunk ==
    /\ pc = "loop"
    /\ UNCHANGED glue
    /\ i < num_chunks
    /\ LET start_time == StartTime(i, effective_chunk_duration)
           end_time == EndTime(total_duration, start_time, max_chunk_duration)
           chunk_path == ChunkPath(i)
       IN  /\ ~PlanStops(start_time, total_duration)
           /\ \E o \in ExtractOutcomes :
               /\ extractLog' = Append(extractLog,
                      [index |-> i, start_time |-> start_time,
                       end_time |-> end_time, outcome |-> o])
               /\ temp_files_to_delete' = Register(temp_files_to_delete, chunk_path, o)
               /\ IF o = "ok"
                    THEN /\ fs' = fs \cup {chunk_path}
                         /\ chunk_size' \in ChunkSizes
                         /\ pc' = "transcribe"
                         /\ UNCHANGED <<pending, pos, cleaned, result>>
                    \* a failed ffmpeg may leave a partial file behind
                    ELSE /\ fs' \in {fs, fs \cup {chunk_path}}
                         /\ ExtractFailed(o)
                         \* chunk_size is not read outside the loop
                         /\ chunk_size' = 0
    /\ UNCHANGED <<file_size, overlap_seconds, win32, total_duration, max_chunk_duration,
                   effective_chunk_duration, num_chunks, i, transcripts,
                   attempt, failed_deletions, probeLog, svcLog, unlinked, last_unlink>>

\* mutant: a failed chunk leaves a placeholder in the transcript
AfterChunkFailure_Placeholder(ts) == Append(ts, <<"?">>)

\* lines 109-111: a failed chunk is logged and skipped
AfterChunkFailure(ts) == ts

\* mutant: every other chunk is left out
NextIndex_SkipOne(index, ok) == index + 2

\* mutant: a chunk whose request failed is taken up again
NextIndex_RetryFailed(index, ok) == IF ok THEN index + 1 ELSE index

\* lines 84, 109-111: 'continue' after a failure, the end of the body after a
\* success: either way the for loop moves on to the next index
NextIndex(index, ok) == index + 1

\* mutant: a chunk that is still over the limit is not sent
SubmitsChunk_WithinLimit(size) == size <= CHUNK_SIZE_LIMIT

\* lines 96-97: an oversize chunk is logged with a warning, and sent like any other
SubmitsChunk(size) == TRUE

\* mutant: the chunk file is removed as soon as its request is over
AfterRequest_Delete(files, path) == files \ {path}

\* lines 101-106: the with block closes the chunk file and leaves it in place
AfterRequest(files, path) == files

\* lines 99-111: the request for one chunk
TranscribeChunk ==
    /\ pc = "transcribe"
    /\ UNCHANGED glue
    /\ \E o \in SvcOutcomes :
        /\ IF SubmitsChunk(chunk_size)
             THEN /\ svcLog' = Append(svcLog,
                         [chunk |-> ChunkPath(i), ok |-> o.ok, text |-> o.text])
                  /\ transcripts' = IF o.ok THEN Append(transcripts, o.text)
                                            ELSE AfterChunkFailure(transcripts)
             ELSE UNCHANGED <<svcLog, transcripts>>
        /\ i' = NextIndex(i, o.ok)
    /\ fs' = AfterRequest(fs, ChunkPath(i))
    /\ pc' = "loop"
    /\ UNCHANGED <<file_size, overlap_seconds, win32, total_duration, max_chunk_duration,
                   effective_chunk_duration, num_chunks,
                   temp_files_to_delete, chunk_size, pending, pos, attempt,
                   failed_deletions, result, probeLog, extractLog, unlinked, last_unlink, cleaned>>

\* lines 84-87, 113: the loop ends (range exhausted, or the break)
LoopExit ==
    /\ pc = "loop"
    /\ UNCHANGED glue
    /\ \/ i >= num_chunks
       \/ PlanStops(StartTime(i, effective_chunk_duration), total_duration)
    /\ pos' = 1
    /\ cleaned' = TRUE
    \* chunk_size is not read outside the loop
    /\ chunk_size' = 0
    /\ pc' = "cleanup"
    /\ UNCHANGED <<file_size, overlap_seconds, win32, total_duration, max_chunk_duration,
                   effective_chunk_duration, num_chunks, i, transcripts,
                   temp_files_to_delete, pending, attempt,
                   failed_deletions, fs, result, probeLog, extractLog, svcLog,
                   unlinked, last_unlink>>

\* ---------------------------------------------------- _cleanup_temp_files

max_retries == 3

\* mutant: cleanup only where the loop ended without an exception
CleanupPaths_SuccessOnly(files, exc) == IF exc = None THEN files ELSE <<>>

\* lines 113-114: the finally block hands the same list over on every exit path
CleanupPaths(files, exc) == files

\* lines 150-155: the next path of the list, and its existence check
CleanupVisit ==
    /\ pc = "cleanup"
    /\ UNCHANGED glue
    /\ LET paths == CleanupPaths(temp_files_to_delete, pending)
       IN  /\ pos <= Len(paths)
           /\ IF paths[pos] \in fs
                THEN /\ pc' = "unlink"
                     /\ attempt' = 0
                     /\ UNCHANGED pos
                ELSE /\ pos' = pos + 1
                     /\ UNCHANGED <<pc, attempt>>
    /\ UNCHANGED <<file_size, overlap_seconds, win32, total_duration, max_chunk_duration,
                   effective_chunk_duration, num_chunks, i, transcripts,
                   temp_files_to_delete, chunk_size, pending, failed_deletions, fs,
                   result, probeLog, extractLog, svcLog, unlinked, last_unlink, cleaned>>

\* outcomes of temp_path.unlink()
UnlinkOutcomes(exists) ==
    IF exists THEN {"ok", "PermissionError", "OSError"} ELSE {"FileNotFoundError"}

\* mutant: a refused deletion is retried for as long as it is refused
Retries_Unbounded(o, a) == o = "PermissionError" /\ win32

\* mutant: a refused deletion is retried on every platform
Retries_AnyPlatform(o, a) == o = "PermissionError" /\ a < max_retries - 1

\* line 164: retry only a PermissionError, only on win32, only before the last attempt
Retries(o, a) == o = "PermissionError" /\ win32 /\ a < max_retries - 1

\* mutant: a file that is already gone counts as a failed deletion
CountsAsFailed_NotFound(o) == o \in {"PermissionError", "OSError", "FileNotFoundError"}

\* mutant: only a refused deletion is counted
CountsAsFailed_LockOnly(o) == o = "PermissionError"

\* lines 171-173, 178-181: the deletion is counted as failed
CountsAsFailed(o) == o \in {"PermissionError", "OSError"}

\* mutant: a file that cannot be deleted ends the cleanup
AfterFile_StopOnFailure(p, o, n) == IF o \in {"PermissionError", "OSError"} THEN n + 1 ELSE p + 1

\* lines 150, 162, 173, 177, 181: every break leads to the next path of the list
AfterFile(p, o, n) == p + 1

\* lines 157-181: one attempt to delete the current path
Unlink ==
    /\ pc = "unlink"
    /\ UNCHANGED glue
    /\ LET path == CleanupPaths(temp_files_to_delete, pending)[pos]
       IN  \E o \in UnlinkOutcomes(path \in fs) :
               /\ unlinked' = unlinked \cup {path}
               /\ last_unlink' = o
               /\ fs' = IF o = "ok" THEN fs \ {path} ELSE fs
               /\ IF Retries(o, attempt)
                    THEN /\ attempt' = attempt + 1
                         /\ UNCHANGED <<pc, pos, failed_deletions>>
                    ELSE /\ failed_deletions' =
                                failed_deletions + (IF CountsAsFailed(o) THEN 1 ELSE 0)
                         /\ pos' = AfterFile(pos, o, Len(temp_files_to_delete))
                         /\ pc' = "cleanup"
                         /\ UNCHANGED attempt
    /\ UNCHANGED <<file_size, overlap_seconds, win32, total_duration, max_chunk_duration,
                   effective_chunk_duration, num_chunks, i, transcripts,
                   temp_files_to_delete, chunk_size, pending, result, probeLog,
                   extractLog, svcLog, cleaned>>

\* mutant: the empty list of transcripts is joined and returned
FinalResult_NoEmptyCheck(ts) == Ok(JoinTexts(ts))

\* lines 116-120: the result of a run whose loop ended without an exception
FinalResult(ts) ==
    IF ts = <<>>
        THEN Err("RuntimeError",
                 "Transcription failed: no chunks could be transcribed successfully")
        ELSE Ok(JoinTexts(ts))

\* mutant: a file that could not be deleted fails the run
Return_RaiseOnFailedDeletion ==
    /\ pc = "cleanup"
    /\ UNCHANGED glue
    /\ pos > Len(temp_files_to_delete)
    /\ result' = IF failed_deletions > 0
                    THEN Err("OSError", "Failed to delete temporary file")
                    ELSE IF pending # None THEN pending ELSE FinalResult(transcripts)
    /\ pc' = "done"
    /\ UNCHANGED <<file_size, overlap_seconds, win32, total_duration, max_chunk_duration,
                   effective_chunk_duration, num_chunks, i, transcripts,
                   temp_files_to_delete, chunk_size, pending, pos, attempt,
                   failed_deletions, fs, probeLog, extractLog, svcLog, unlinked, last_unlink, cleaned>>

\* lines 114-120, 183-186: cleanup is over; the pending exception propagates,
\* or the transcript is returned
Return ==
    /\ pc = "cleanup"
    /\ UNCHANGED glue
    /\ pos > Len(CleanupPaths(temp_files_to_delete, pending))
    /\ result' = IF pending # None THEN pending ELSE FinalResult(transcripts)
    /\ pc' = "done"
    /\ UNCHANGED <<file_size, overlap_seconds, win32, total_duration, max_chunk_duration,
                   effective_chunk_duration, num_chunks, i, transcripts,
                   temp_files_to_delete, chunk_size, pending, pos, attempt,
                   failed_deletions, fs, probeLog, extractLog, svcLog, unlinked, last_unlink, cleaned>>

\* --------------------------------------------------------- specification

Next ==
    \/ DirectTranscribe
    \/ DurationProbe
    \/ ExtractChunk
    \/ TranscribeChunk
    \/ LoopExit
    \/ CleanupVisit
    \/ Unlink
    \/ Return

Spec == Init /\ [][Next]_vars

\* every external call returns or throws: a run that can take a step takes one
FairSpec == Spec /\ WF_vars(Next)

\* ------------------------------------------- the planner on a given plan

\* durations and per-chunk maxima handed to lines 74-89
PlanDurations == {Q(70, 1)}

PlanMaxChunkDurations == {Q(40, 1), Q(30, 1)}

\* the state at line 80 of a run on an oversize file whose probe succeeded,
\* for a given total_duration and max_chunk_duration: lines 74-75 derive the
\* stride and the number of chunks from them and do not read file_size
PlanInit ==
    /\ GlueIdle
    /\ pc = "loop"
    /\ file_size \in {s \in FileSizes : ~IsDirect(s)}
    /\ overlap_seconds \in 0..MaxOverlap
    /\ win32 \in BOOLEAN
    /\ total_duration \in PlanDurations
    /\ max_chunk_duration \in PlanMaxChunkDurations
    /\ effective_chunk_duration =
           EffectiveChunkDuration(max_chunk_duration, overlap_seconds)
    /\ num_chunks = NumChunks(total_duration, effective_chunk_duration)
    /\ num_chunks <= MaxChunks
    /\ i = 0
    /\ transcripts = <<>>
    /\ temp_files_to_delete = <<>>
    /\ chunk_size = 0
    /\ pending = None
    /\ pos = 1
    /\ attempt = 0
    /\ failed_deletions = 0
    /\ fs = {}
    /\ result = None
    /\ probeLog = <<TRUE>>
    /\ extractLog = <<>>
    /\ svcLog = <<>>
    /\ unlinked = {}
    /\ last_unlink = "none"
    /\ cleaned = FALSE

\* lines 83-120
PlanNext ==
    \/ ExtractChunk
    \/ TranscribeChunk
    \/ LoopExit
    \/ CleanupVisit
    \/ Unlink
    \/ Return

PlanSpec == PlanInit /\ [][PlanNext]_vars

\* --------------------------------- cleanup beside other processes

\* another process (a temp-directory cleaner, the user) removes the chunk file
\* cleanup has come to: before the existence check of line 151, between that
\* check and the unlink of line 159, or between two attempts.  A file removed
\* any earlier is found absent in the same way.
ExternalRemove ==
    /\ pc \in {"cleanup", "unlink"}
    /\ UNCHANGED glue
    /\ pos <= Len(temp_files_to_delete)
    /\ temp_files_to_delete[pos] \in fs
    /\ fs' = fs \ {temp_files_to_delete[pos]}
    /\ UNCHANGED <<pc, file_size, overlap_seconds, win32, total_duration,
                   max_chunk_duration, effective_chunk_duration, num_chunks, i,
                   transcripts, temp_files_to_delete, chunk_size, pending, pos,
                   attempt, failed_deletions, result, probeLog, extractLog, svcLog,
                   unlinked, last_unlink, cleaned>>

EnvNext == Next \/ ExternalRemove

EnvSpec == Init /\ [][EnvNext]_vars

\* ------------------------------------ analyzer.py: legacy_analyze_transcript

\* t.strip(): leading and trailing blanks removed
RECURSIVE LStrip(_)
LStrip(t) == IF t # <<>> /\ Head(t) = " " THEN LStrip(Tail(t)) ELSE t

RECURSIVE RStrip(_)
RStrip(t) ==
    IF t # <<>> /\ t[Len(t)] = " " THEN RStrip(SubSeq(t, 1, Len(t) - 1)) ELSE t

Strip(t) == RStrip(LStrip(t))

\* not t or not t.strip()
IsBlank(t) == Strip(t) = <<>>

\* transcript_text and target_name arguments
AnalyzerTranscripts == {<<>>, <<" ">>, <<"t">>}

AnalyzerTargets == {<<>>, <<"T">>}

\* outcomes of client.chat.completions.create: a message content (None and ""
\* both read as the empty text), or an exception
CompletionOutcomes ==
    {[kind |-> "content", content |-> c] : c \in {<<>>, <<" ">>, <<" ", "r", " ">>}}
    \cup {[kind |-> e, content |-> <<>>] :
              e \in {"APIError", "RateLimitError", "AuthenticationError", "Exception"}}

\* what a call has come to: still running, returned a value, raised
Running == [kind |-> "running", is_none |-> FALSE, text |-> <<>>, exc |-> ""]

Returned(t) == [kind |-> "return", is_none |-> FALSE, text |-> t, exc |-> ""]

ReturnedNone == [kind |-> "return", is_none |-> TRUE, text |-> <<>>, exc |-> ""]

Raised(e) == [kind |-> "raise", is_none |-> FALSE, text |-> <<>>, exc |-> e]

\* mutant: only rate limits are retried, as for the bullet extractor
Retryable_RateLimitOnly(e) == e = "RateLimitError"

\* retry_if_exception_type((APIError, RateLimitError)): RateLimitError and
\* AuthenticationError are subclasses of APIError
Retryable(e) == e \in {"APIError", "RateLimitError", "AuthenticationError"}

\* stop_after_attempt(4)
StopAfterAttempt(n) == n >= 4

\* the decorator of lines 52-58, after an attempt ended in exception e: wait
\* and call again, or (reraise=True) raise e
AfterException(a, e) ==
    IF Retryable(e) /\ ~StopAfterAttempt(a.attempt_number)
        THEN [a EXCEPT !.attempt_number = @ + 1]
        ELSE [a EXCEPT !.pc = "done", !.result = Raised(e)]

AnalyzerInit ==
    /\ EngineIdle
    /\ downloader = NotRunning
    /\ pipeline = NotRunning
    /\ runs = NotRunning
    /\ \E t \in AnalyzerTranscripts, n \in AnalyzerTargets, k \in BOOLEAN :
          analyzer = [pc |-> "attempt",
                      transcript_text |-> t,
                      target_name |-> n,
                      api_key |-> k,          \* Config.OPENAI_API_KEY is set
                      attempt_number |-> 1,   \* the decorator's attempt counter
                      client_calls |-> 0,     \* calls of OpenAI(...)
                      create_calls |-> <<>>,  \* outcomes of the create calls
                      result |-> Running]

\* lines 88-93: an empty transcript or target name is refused
RejectInput ==
    /\ analyzer.pc = "attempt"
    /\ IsBlank(analyzer.transcript_text) \/ IsBlank(analyzer.target_name)
    /\ analyzer' = [analyzer EXCEPT !.pc = "done", !.result = ReturnedNone]
    /\ UNCHANGED <<engine, downloader, pipeline, runs>>

\* lines 95-163: one attempt, and the decorator's decision after it
AnalyzeAttempt ==
    /\ analyzer.pc = "attempt"
    /\ ~IsBlank(analyzer.transcript_text)
    /\ ~IsBlank(analyzer.target_name)
    /\ IF ~analyzer.api_key
         \* line 98: AuthenticationError("...") is raised, or, where the class
         \* requires response and body, the TypeError of its construction
         THEN \E e \in {"AuthenticationError", "TypeError"} :
                  analyzer' = AfterException(analyzer, e)
         ELSE \E o \in CompletionOutcomes :
                  LET a == [analyzer EXCEPT !.client_calls = @ + 1,
                                            !.create_calls = Append(@, o.kind)]
                  IN  analyzer' =
                          IF o.kind # "content" THEN AfterException(a, o.kind)
                          ELSE IF IsBlank(o.content)
                              THEN [a EXCEPT !.pc = "done", !.result = ReturnedNone]
                          ELSE [a EXCEPT !.pc = "done",
                                         !.result = Returned(Strip(o.content))]
    /\ UNCHANGED <<engine, downloader, pipeline, runs>>

AnalyzerNext ==
    \/ RejectInput
    \/ AnalyzeAttempt

AnalyzerSpec == AnalyzerInit /\ [][AnalyzerNext]_vars

\* ------------------------------------------- downloader.py: download_audio

\* str(output_dir / f"{base_filename}.{ext}")
PathString(dir, base, ext) == <<dir, "/", base, ".", ext>>

\* mutant: the output template stands in for the final path
FinalAudioPath_Template(dir, base, fmt) == PathString(dir, base, "%(ext)s")

\* line 93: final_audio_path, as the string of line 196
FinalAudioPath(dir, base, fmt) == PathString(dir, base, fmt)

\* line 92: output_path_template
OutputPathTemplate(dir, base) == PathString(dir, base, "%(ext)s")

\* the values download_audio handles: None, a string, a (path, metadata) pair
PyNone == [type |-> "None", path |-> <<>>, metadata |-> "none"]

PyStr(p) == [type |-> "str", path |-> p, metadata |-> "none"]

PyPair(p, m) == [type |-> "tuple", path |-> p, metadata |-> m]

DownloadRunning == [kind |-> "running", value |-> PyNone, exc |-> ""]

DownloadReturned(v) == [kind |-> "return", value |-> v, exc |-> ""]

DownloadRaised(e) == [kind |-> "raise", value |-> PyNone, exc |-> e]

\* arguments and configuration
OutputDirs == {"out", "results"}

BaseFilenames == {"a", "b"}

AudioFormats == {"mp3", "m4a"}

\* the suffixes line 203 accepts for an alternative file
AlternativeSuffixes == {"mp3", "m4a", "wav", "ogg", "opus"}

DownloaderInit ==
    /\ EngineIdle
    /\ analyzer = NotRunning
    /\ pipeline = NotRunning
    /\ runs = NotRunning
    /\ \E y \in BOOLEAN, d \in OutputDirs, b \in BaseFilenames, f \in AudioFormats :
          downloader = [pc |-> "start",
                        YT_DLP_PATH |-> y,        \* the executable was found
                        output_dir |-> d,
                        base_filename |-> b,
                        AUDIO_FORMAT |-> f,       \* Config.AUDIO_FORMAT
                        mkdir_calls |-> 0,        \* calls of output_dir.mkdir
                        metadata |-> "none",      \* "extracted" or "default"
                        run_calls |-> <<>>,       \* the subprocess.run calls
                        final_exists |-> FALSE,   \* final_audio_path.exists()
                        result |-> DownloadRunning]

\* lines 86-93
CheckExecutable ==
    /\ downloader.pc = "start"
    /\ downloader' =
           IF ~downloader.YT_DLP_PATH
               THEN [downloader EXCEPT !.pc = "done",
                                       !.result = DownloadReturned(PyNone)]
               ELSE [downloader EXCEPT !.pc = "mkdir"]
    /\ UNCHANGED <<engine, analyzer, pipeline, runs>>

\* lines 95-100: output_dir.mkdir(parents=True, exist_ok=True)
MakeOutputDir ==
    /\ downloader.pc = "mkdir"
    /\ \E o \in {"ok", "OSError"} :
          downloader' =
              IF o = "ok"
                  THEN [downloader EXCEPT !.pc = "metadata", !.mkdir_calls = @ + 1]
                  ELSE [downloader EXCEPT !.pc = "done", !.mkdir_calls = @ + 1,
                                          !.result = DownloadReturned(PyNone)]
    /\ UNCHANGED <<engine, analyzer, pipeline, runs>>

\* lines 115-146: ydl.extract_info(url, download=False)
ExtractMetadata ==
    /\ downloader.pc = "metadata"
    /\ \E o \in {"info", "DownloadError", "Exception"} :
          downloader' =
              IF o = "info"
                  THEN [downloader EXCEPT !.pc = "run", !.metadata = "extracted"]
              ELSE IF o = "DownloadError"
                  THEN [downloader EXCEPT !.pc = "run", !.metadata = "default"]
              ELSE [downloader EXCEPT !.pc = "done",
                                      !.result = DownloadReturned(PyNone)]
    /\ UNCHANGED <<engine, analyzer, pipeline, runs>>

\* mutant: a failed subprocess raises out of download_audio
RunFailure_Propagates(o) == DownloadRaised(o)

\* lines 220-230: every exception of the subprocess call is logged and None
\* is returned
RunFailure(o) == DownloadReturned(PyNone)

\* lines 159-190, 220-230: subprocess.run(cmd, check=True, ...)
RunYtDlp ==
    /\ downloader.pc = "run"
    /\ \E o \in {"ok", "CalledProcessError", "FileNotFoundError", "Exception"} :
          LET d == [downloader EXCEPT !.run_calls = Append(@,
                        [check |-> TRUE,
                         output |-> OutputPathTemplate(downloader.output_dir,
                                                       downloader.base_filename),
                         outcome |-> o])]
          IN  downloader' =
                  IF o = "ok" THEN [d EXCEPT !.pc = "check_file"]
                  ELSE [d EXCEPT !.pc = "done", !.result = RunFailure(o)]
    /\ UNCHANGED <<engine, analyzer, pipeline, runs>>

\* lines 192-210: the expected file, or an alternative audio file, or nothing
CheckOutputFile ==
    /\ downloader.pc = "check_file"
    /\ \/ downloader' =
              [downloader EXCEPT
                  !.pc = "done",
                  !.final_exists = TRUE,
                  !.result = DownloadReturned(PyPair(
                      FinalAudioPath(downloader.output_dir, downloader.base_filename,
                                     downloader.AUDIO_FORMAT),
                      downloader.metadata))]
       \/ \E x \in AlternativeSuffixes \ {downloader.AUDIO_FORMAT} :
              downloader' =
                  [downloader EXCEPT
                      !.pc = "done",
                      !.result = DownloadReturned(PyPair(
                          PathString(downloader.output_dir, downloader.base_filename, x),
                          downloader.metadata))]
       \/ downloader' = [downloader EXCEPT !.pc = "done",
                                           !.result = DownloadReturned(PyNone)]
    /\ UNCHANGED <<engine, analyzer, pipeline, runs>>

DownloaderNext ==
    \/ CheckExecutable
    \/ MakeOutputDir
    \/ ExtractMetadata
    \/ RunYtDlp
    \/ CheckOutputFile

DownloaderSpec == DownloaderInit /\ [][DownloaderNext]_vars

\* ------------------------------------------------------- main.py: main()

\* a stage that stops the pipeline: log.error, then the exception, which the
\* handlers of lines 298-310 log again and turn into exit code 2
Halt(p, why) ==
    [p EXCEPT !.pc = "finally", !.errors = @ + 2, !.exit_code = 2, !.failure = why]

PipelineInit ==
    /\ EngineIdle
    /\ analyzer = NotRunning
    /\ downloader = NotRunning
    /\ runs = NotRunning
    /\ \E sd \in BOOLEAN, st \in BOOLEAN, se \in BOOLEAN :
          pipeline = [pc |-> "step1",
                      skip_download |-> sd,
                      skip_transcription |-> st,
                      skip_extraction |-> se,
                      current_audio_path_str |-> "None",
                      video_metadata |-> "None",
                      transcript_text |-> "None",  \* "None", "" or "text"
                      exit_code |-> 0,
                      calls |-> <<>>,       \* history: the stage functions called
                      errors |-> 0,         \* history: records logged as errors
                      failure |-> "none",   \* history: why the pipeline stopped
                      exited |-> -1]        \* the argument of sys.exit

\* lines 170-198
Step1Download ==
    /\ pipeline.pc = "step1"
    /\ IF ~pipeline.skip_download
         THEN \E download_result \in {"pair", "None"} :
                  LET p == [pipeline EXCEPT !.calls = Append(@, "download_audio")]
                  IN  pipeline' =
                          IF download_result = "pair"
                              THEN [p EXCEPT !.pc = "step2",
                                             !.current_audio_path_str = "path",
                                             !.video_metadata = "dict"]
                              ELSE Halt(p, "download returned None")
         \* audio_path.is_file()
         ELSE \E is_file \in BOOLEAN :
                  pipeline' =
                      IF is_file
                          THEN [pipeline EXCEPT !.pc = "step2",
                                                !.current_audio_path_str = "path",
                                                !.video_metadata = "dict"]
                          ELSE Halt(pipeline, "audio file missing")
    /\ UNCHANGED <<engine, analyzer, downloader, runs>>

\* lines 200-236
Step2Transcribe ==
    /\ pipeline.pc = "step2"
    /\ IF ~pipeline.skip_transcription
         THEN IF pipeline.current_audio_path_str = "None"
                THEN pipeline' = Halt(pipeline, "audio path missing")
                ELSE \E t \in {"text", "", "None", "raise"}, saved \in BOOLEAN :
                    LET p == [pipeline EXCEPT !.calls = Append(@, "transcribe_audio")]
                    IN  pipeline' =
                            IF t = "raise"
                                \* caught at line 302 or 306
                                THEN [p EXCEPT !.pc = "finally", !.errors = @ + 1,
                                               !.exit_code = 2,
                                               !.failure = "transcription raised"]
                            ELSE IF t # "text" THEN Halt(p, "no transcript text")
                            \* save_text_file logs its own failure (output.py 134-141)
                            ELSE [p EXCEPT !.pc = "step3", !.transcript_text = t,
                                           !.calls = Append(@, "save_text_file"),
                                           !.errors = @ + (IF saved THEN 0 ELSE 1)]
         \* transcript_path.is_file(), then f.read()
         ELSE \E is_file \in BOOLEAN, t \in {"text", "", "raise"} :
                  pipeline' =
                      IF ~is_file THEN Halt(pipeline, "transcript file missing")
                      ELSE IF t = "raise" THEN Halt(pipeline, "transcript unreadable")
                      ELSE [pipeline EXCEPT !.pc = "step3", !.transcript_text = t]
    /\ UNCHANGED <<engine, analyzer, downloader, runs>>

\* if x: of a string or a dict that may be None
Truthy(x) == x \notin {"None", ""}

\* lines 238-260; extract_raw_bullet_data_from_text returns a list or raises
Step3Extract ==
    /\ pipeline.pc = "step3"
    /\ IF pipeline.skip_extraction
         THEN pipeline' = [pipeline EXCEPT !.pc = "step4"]
         ELSE IF Truthy(pipeline.transcript_text) /\ Truthy(pipeline.video_metadata)
         THEN \E o \in {"list", "raise"} :
                  LET p == [pipeline EXCEPT
                                !.pc = "step4",
                                !.calls = Append(@, "extract_raw_bullet_data_from_text")]
                  IN  pipeline' =
                          IF o = "list" THEN p
                          ELSE [p EXCEPT !.errors = @ + 1, !.exit_code = 1]
         \* line 256: an error is logged; exit_code is left as it is
         ELSE pipeline' = [pipeline EXCEPT !.pc = "step4", !.errors = @ + 1]
    /\ UNCHANGED <<engine, analyzer, downloader, runs>>

\* lines 262-295
Step4Report ==
    /\ pipeline.pc = "step4"
    /\ \E formatted \in BOOLEAN, saved \in BOOLEAN :
          pipeline' =
              [pipeline EXCEPT
                  !.pc = "finally",
                  !.calls = @ \o <<"generate_html_report", "save_text_file">>,
                  !.errors = @ + (IF formatted THEN 0 ELSE 1) + (IF saved THEN 0 ELSE 2),
                  !.exit_code = IF formatted /\ saved
                                    THEN IF pipeline.video_metadata = "None" THEN 1 ELSE @
                                    ELSE 1]
    /\ UNCHANGED <<engine, analyzer, downloader, runs>>

\* lines 311-322
ExitProcess ==
    /\ pipeline.pc = "finally"
    /\ pipeline' = [pipeline EXCEPT !.pc = "exited", !.exited = pipeline.exit_code]
    /\ UNCHANGED <<engine, analyzer, downloader, runs>>

PipelineNext ==
    \/ Step1Download
    \/ Step2Transcribe
    \/ Step3Extract
    \/ Step4Report
    \/ ExitProcess

PipelineSpec == PipelineInit /\ [][PipelineNext]_vars

\* ------------------------- transcriber.py: two runs and one temp directory

\* chunks per run
RunChunks == 2

\* file names are sequences of characters
DIGITS == <<"0", "1", "2", "3", "4", "5", "6", "7", "8", "9">>

\* str(n) for n >= 0
RECURSIVE Decimal(_)
Decimal(n) ==
    IF n < 10 THEN <<DIGITS[n + 1]>>
              ELSE Decimal(n \div 10) \o <<DIGITS[(n % 10) + 1]>>

\* name.rfind('.'), counted from 1; 0 when the name has no dot
LastDot(name) ==
    LET dots == {k \in DOMAIN name : name[k] = "."}
    IN  IF dots = {} THEN 0 ELSE CHOOSE k \in dots : \A j \in dots : j <= k

\* PurePath.suffix (Python before 3.14): from the last dot on, unless that
\* dot is the first or the last character of the name
Suffix(name) ==
    LET k == LastDot(name)
    IN  IF 1 < k /\ k < Len(name) THEN SubSeq(name, k, Len(name)) ELSE <<>>

\* PurePath.stem: the name without its suffix
Stem(name) == SubSeq(name, 1, Len(name) - Len(Suffix(name)))

\* line 125: f"{audio_path.stem}_part{index+1}{audio_path.suffix}" in
\* tempfile.gettempdir()
ChunkFileName(name, index) ==
    Stem(name) \o <<"_", "p", "a", "r", "t">> \o Decimal(index + 1) \o Suffix(name)

\* the final path components of the two audio_path arguments: a.m, b.m, a,
\* x_part1. and x._part1
SourceNames ==
    {<<"a", ".", "m">>, <<"b", ".", "m">>, <<"a">>,
     <<"x", "_", "p", "a", "r", "t", "1", ".">>,
     <<"x", ".", "_", "p", "a", "r", "t", "1">>}

RunIds == {1, 2}

\* two calls of _transcribe_large_file in two processes, each at the head
\* of its chunk loop; tmp is the temp directory, each file with the run that
\* wrote it
RunsInit ==
    /\ EngineIdle
    /\ analyzer = NotRunning
    /\ downloader = NotRunning
    /\ pipeline = NotRunning
    /\ \E n1 \in SourceNames, n2 \in SourceNames :
          runs = [pc |-> "running",
                  source |-> <<n1, n2>>,
                  at |-> <<"loop", "loop">>,
                  i |-> <<0, 0>>,
                  temp_files_to_delete |-> <<<<>>, <<>>>>,
                  pos |-> <<1, 1>>,
                  tmp |-> {},
                  created |-> <<{}, {}>>,   \* history: paths ffmpeg wrote
                  opened |-> <<{}, {}>>,    \* history: files opened for reading
                  removed |-> <<{}, {}>>]   \* history: paths unlinked

\* the file at a path of the temp directory; by = 0 when there is none
FileAt(path) ==
    IF \E f \in runs.tmp : f.path = path
      THEN CHOOSE f \in runs.tmp : f.path = path
      ELSE [path |-> path, by |-> 0]

\* lines 84-91, 122-140: ffmpeg -y writes the chunk file, replacing a file
\* that is already at the path
RunExtract(r) ==
    /\ runs.pc = "running"
    /\ runs.at[r] = "loop"
    /\ runs.i[r] < RunChunks
    /\ LET chunk_path == ChunkFileName(runs.source[r], runs.i[r])
       IN  runs' = [runs EXCEPT
               !.tmp = {f \in @ : f.path # chunk_path} \cup
                           {[path |-> chunk_path, by |-> r]},
               !.created[r] = @ \cup {chunk_path},
               !.temp_files_to_delete[r] = Append(@, chunk_path),
               !.at[r] = "transcribe"]
    /\ UNCHANGED <<engine, analyzer, downloader, pipeline>>

\* lines 99-111: the chunk file is opened and sent; a failure, a missing
\* file included, is logged and the loop goes on
RunTranscribe(r) ==
    /\ runs.pc = "running"
    /\ runs.at[r] = "transcribe"
    /\ LET chunk_path == ChunkFileName(runs.source[r], runs.i[r])
       IN  runs' = [runs EXCEPT
               !.opened[r] = @ \cup {FileAt(chunk_path)},
               !.i[r] = @ + 1,
               !.at[r] = "loop"]
    /\ UNCHANGED <<engine, analyzer, downloader, pipeline>>

\* lines 84, 113-114: the loop is over, the finally block starts cleanup
RunLoopExit(r) ==
    /\ runs.pc = "running"
    /\ runs.at[r] = "loop"
    /\ runs.i[r] >= RunChunks
    /\ runs' = [runs EXCEPT !.at[r] = "cleanup", !.pos[r] = 1]
    /\ UNCHANGED <<engine, analyzer, downloader, pipeline>>

\* lines 150-162: a registered path that exists is unlinked, one that does
\* not is passed over
RunCleanup(r) ==
    /\ runs.pc = "running"
    /\ runs.at[r] = "cleanup"
    /\ runs.pos[r] <= Len(runs.temp_files_to_delete[r])
    /\ LET temp_path == runs.temp_files_to_delete[r][runs.pos[r]]
       IN  IF FileAt(temp_path).by # 0
             THEN runs' = [runs EXCEPT
                      !.tmp = {f \in @ : f.path # temp_path},
                      !.removed[r] = @ \cup {temp_path},
                      !.pos[r] = @ + 1]
             ELSE runs' = [runs EXCEPT !.pos[r] = @ + 1]
    /\ UNCHANGED <<engine, analyzer, downloader, pipeline>>

\* lines 116-120: the run ends
RunReturn(r) ==
    /\ runs.pc = "running"
    /\ runs.at[r] = "cleanup"
    /\ runs.pos[r] > Len(runs.temp_files_to_delete[r])
    /\ runs' = [runs EXCEPT !.at[r] = "done"]
    /\ UNCHANGED <<engine, analyzer, downloader, pipeline>>

RunsNext ==
    \E r \in RunIds :
        \/ RunExtract(r)
        \/ RunTranscribe(r)
        \/ RunLoopExit(r)
        \/ RunCleanup(r)
        \/ RunReturn(r)

RunsSpec == RunsInit /\ [][RunsNext]_vars

\* ------------------------------------------------------------------ claims

\* the run went down the chunking path and its loop ended without an exception
LoopCompleted ==
    /\ pc \in {"cleanup", "unlink", "done"}
    /\ probeLog = <<TRUE>>
    /\ total_duration[1] # 0
    /\ pending = None

\* the texts of the successful calls of a service log, in the log's order,
\* with one space between neighbours
RECURSIVE SpaceJoinedFrom(_, _)
SpaceJoinedFrom(log, k) ==
    IF k > Len(log) THEN <<>>
    ELSE IF ~log[k].ok THEN SpaceJoinedFrom(log, k + 1)
    ELSE IF \E m \in (k + 1)..Len(log) : log[m].ok
        THEN log[k].text \o <<" ">> \o SpaceJoinedFrom(log, k + 1)
        ELSE log[k].text

\* C1: a file of at most CHUNK_SIZE_LIMIT bytes (the limit itself included) is
\* transcribed with exactly one service call, no duration probe, no segment
\* extraction and no chunk file, and a successful call's text is returned as is.
C1_DirectPathSingleCall ==
    file_size <= CHUNK_SIZE_LIMIT =>
        /\ probeLog = <<>>
        /\ extractLog = <<>>
        /\ temp_files_to_delete = <<>>
        /\ fs = {}
        /\ unlinked = {}
        /\ Len(svcLog) <= 1
        /\ pc = "done" =>
            /\ Len(svcLog) = 1
            /\ svcLog[1].ok => (result.kind = "ok" /\ result.text = svcLog[1].text)

C1_Witness ==
    /\ pc = "done"
    /\ file_size = CHUNK_SIZE_LIMIT
    /\ Len(svcLog) = 1
    /\ result.kind = "ok"
    /\ result.text = <<"b">>

\* C2: when every planned chunk was extracted and some but not all of the
\* transcription calls failed, the run raises nothing and returns the texts of
\* the successful chunks, in chunk order, joined by single spaces; a failed
\* chunk leaves no trace in the transcript.
C2_PartialFailureJoinsSuccesses ==
    ( /\ pc = "done"
      /\ LoopCompleted
      /\ \E k \in DOMAIN svcLog : svcLog[k].ok
      /\ \E k \in DOMAIN svcLog : ~svcLog[k].ok )
    =>
        /\ result.kind = "ok"
        /\ result.text = SpaceJoinedFrom(svcLog, 1)
        /\ \A k \in 1..(Len(svcLog) - 1) : svcLog[k].chunk < svcLog[k + 1].chunk

C2_Witness ==
    /\ pc = "done"
    /\ LoopCompleted
    /\ Len(svcLog) = 3
    /\ svcLog[1].ok /\ ~svcLog[2].ok /\ svcLog[3].ok
    /\ result.text = <<"b", " ", "a">>

\* C3: when every planned chunk was extracted and every transcription call
\* failed, the run raises the terminal transcription error, and by then unlink
\* has been called on each of the chunk files.
C3_AllFailedRaisesAfterCleanup ==
    ( /\ pc = "done"
      /\ LoopCompleted
      /\ \A k \in DOMAIN svcLog : ~svcLog[k].ok )
    =>
        /\ result.kind = "RuntimeError"
        /\ result.msg = "Transcription failed: no chunks could be transcribed successfully"
        /\ Len(svcLog) = Len(extractLog)
        /\ \A k \in DOMAIN extractLog :
              ChunkPath(extractLog[k].index) \in unlinked

C3_Witness ==
    /\ pc = "done"
    /\ LoopCompleted
    /\ Len(svcLog) = 3
    /\ \A k \in DOMAIN svcLog : ~svcLog[k].ok
    /\ result.kind = "RuntimeError"
    /\ unlinked = {1, 2, 3}

\* C4: when the extraction of chunk k >= 1 throws, unlink has been called on
\* each of the chunk files 0..k-1 by the time the error reaches the caller.
C4_CleanupOnExceptionPath ==
    ( /\ pc = "done"
      /\ extractLog # <<>>
      /\ extractLog[Len(extractLog)].outcome # "ok"
      /\ extractLog[Len(extractLog)].index >= 1 )
    =>
        /\ result.kind \notin {"none", "ok"}
        /\ \A j \in 0..(extractLog[Len(extractLog)].index - 1) :
              ChunkPath(j) \in unlinked

C4_Witness ==
    /\ pc = "done"
    /\ Len(extractLog) = 3
    /\ extractLog[3].outcome = "CalledProcessError"
    /\ unlinked = {1, 2}
    /\ result.kind = "RuntimeError"

\* C5: when the extraction of chunk k fails, the run ends with the
\* transcription error (RuntimeError), no chunk after k is extracted or
\* transcribed, and no transcript is returned.
C5_ExtractionFailureIsTranscriptionError ==
    \A k \in DOMAIN extractLog :
        extractLog[k].outcome # "ok" =>
            /\ k = Len(extractLog)
            /\ \A m \in DOMAIN svcLog : svcLog[m].chunk < ChunkPath(extractLog[k].index)
            /\ pc = "done" => result.kind = "RuntimeError"

\* C6: when the duration probe of an oversize file fails, the run ends with
\* the error "Failed to get audio duration", and no segment is extracted and
\* no transcription call is made.
C6_ProbeFailureIsFatal ==
    (probeLog # <<>> /\ ~probeLog[1]) =>
        /\ pc = "done"
        /\ result.kind = "RuntimeError"
        /\ result.msg = "Failed to get audio duration"
        /\ extractLog = <<>>
        /\ svcLog = <<>>
        /\ fs = {}

C6_Witness ==
    /\ pc = "done"
    /\ file_size > CHUNK_SIZE_LIMIT
    /\ probeLog = <<FALSE>>
    /\ result.msg = "Failed to get audio duration"

\* the stride the claims state: max(max_chunk_duration - overlap_seconds, 0.1)
StatedStride ==
    LET d == QSub(max_chunk_duration, QInt(overlap_seconds))
    IN  IF QLess(d, Q(1, 10)) THEN Q(1, 10) ELSE d

\* ceil(total_duration / stride): the n with (n-1) * stride < total <= n * stride
StatedCount ==
    CHOOSE n \in 1..(MaxChunks + 1) :
        /\ QLess(QMul(QInt(n - 1), StatedStride), total_duration)
        /\ QLeq(total_duration, QMul(QInt(n), StatedStride))

\* C7: for an oversize file with a positive duration, a run in which no
\* extraction fails requests exactly ceil(total_duration / stride) extractions,
\* stride = max(max_chunk_duration - overlap_seconds, 0.1); the early stop
\* never cuts that number short.
C7_PlannedCountIsCeil ==
    LoopCompleted =>
        /\ Len(extractLog) = StatedCount
        /\ \A k \in DOMAIN extractLog : extractLog[k].index = k - 1

C7_Witness ==
    /\ LoopCompleted
    /\ pc = "done"
    /\ Len(extractLog) = 3
    /\ StatedStride = Q(1, 10)
    /\ total_duration = Q(3, 10)

\* C8: the planned intervals leave no gap: chunk 0 starts at 0 and each
\* chunk starts no later than its predecessor ends, also under the 0.1 s floor.
C8_NoGaps ==
    extractLog # <<>> =>
        /\ extractLog[1].start_time = Q(0, 1)
        /\ \A k \in 1..(Len(extractLog) - 1) :
              QLeq(extractLog[k + 1].start_time, extractLog[k].end_time)

\* C9: the last planned interval ends at total_duration, and no planned
\* interval ends after it.
C9_LastEndIsTotal ==
    /\ \A k \in DOMAIN extractLog : QLeq(extractLog[k].end_time, total_duration)
    /\ (LoopCompleted /\ extractLog # <<>>) =>
          extractLog[Len(extractLog)].end_time = total_duration

\* the interval's end is start + max_chunk_duration, not cut at total_duration
Unclamped(e) == e.end_time = QAdd(e.start_time, max_chunk_duration)

\* C10 as stated: for consecutive chunks with unclamped ends, the end of one
\* minus the start of the next is overlap_seconds, for every overlap >= 0.
C10_OverlapExactForEveryOverlap ==
    \A k \in 1..(Len(extractLog) - 1) :
        (Unclamped(extractLog[k]) /\ Unclamped(extractLog[k + 1])) =>
            QSub(extractLog[k].end_time, extractLog[k + 1].start_time)
                = QInt(overlap_seconds)

\* C10 as amended: the same, where max_chunk_duration - overlap_seconds is at
\* least 0.1, that is where the floor on the stride is not in effect.
C10_OverlapExactAboveFloor ==
    QLeq(Q(1, 10), QSub(max_chunk_duration, QInt(overlap_seconds))) =>
        \A k \in 1..(Len(extractLog) - 1) :
            (Unclamped(extractLog[k]) /\ Unclamped(extractLog[k + 1])) =>
                QSub(extractLog[k].end_time, extractLog[k + 1].start_time)
                    = QInt(overlap_seconds)

C10_Witness ==
    /\ overlap_seconds = 2
    /\ Len(extractLog) >= 2
    /\ Unclamped(extractLog[1]) /\ Unclamped(extractLog[2])
    /\ QLeq(Q(1, 10), QSub(max_chunk_duration, QInt(overlap_seconds)))
    /\ QSub(extractLog[1].end_time, extractLog[2].start_time) = Q(2, 1)

\* the scenario of C11: 70 s of audio, at most 40 s per chunk, 2 s of overlap
C11_Scenario ==
    /\ total_duration = Q(70, 1)
    /\ max_chunk_duration = Q(40, 1)
    /\ overlap_seconds = 2

C12_NoRetryOfFailedChunk ==
    ~IsDirect(file_size) =>
        /\ \A k \in 1..(Len(svcLog) - 1) : svcLog[k].chunk < svcLog[k + 1].chunk
        /\ Len(svcLog) <= Len(temp_files_to_delete)
        /\ (pc = "loop" /\ svcLog # <<>>) =>
              ChunkPath(i) = svcLog[Len(svcLog)].chunk + 1
        /\ pc = "transcribe" =>
              \A k \in DOMAIN svcLog : svcLog[k].chunk < ChunkPath(i)

C12_Witness ==
    /\ pc = "done"
    /\ LoopCompleted
    /\ Len(svcLog) = 3
    /\ ~svcLog[1].ok /\ ~svcLog[2].ok /\ svcLog[3].ok
    /\ svcLog[1].chunk = 1 /\ svcLog[2].chunk = 2 /\ svcLog[3].chunk = 3
    /\ result.text = <<"a">>

\* C13: every failing run of the chunking path ends with one error type,
\* RuntimeError, carrying a cause; no other exception type reaches the caller.
C13_OnlyRuntimeErrorEscapes ==
    (pc = "done" /\ ~IsDirect(file_size)) =>
        /\ result.kind \in {"ok", "RuntimeError"}
        /\ result.kind = "RuntimeError" => result.msg # ""

\* C14: a listed file that is absent, at the existence check or at unlink, is
\* passed over: the step raises nothing, leaves the failed-deletion count as it
\* was, and cleanup goes on with the next path of the list.
C14_AbsentFilesArePassedOver ==
    [][ ( /\ pc \in {"cleanup", "unlink"}
          /\ pos <= Len(temp_files_to_delete)
          /\ temp_files_to_delete[pos] \notin fs
          /\ (pc' # pc \/ pos' # pos) )
        =>
        ( /\ failed_deletions' = failed_deletions
          /\ pos' = pos + 1
          /\ pc' = "cleanup"
          /\ pending' = pending
          /\ result' = result ) ]_vars

C14_Witness ==
    /\ pc = "done"
    /\ last_unlink = "FileNotFoundError"
    /\ \E k \in DOMAIN temp_files_to_delete : temp_files_to_delete[k] \notin unlinked
    /\ failed_deletions = 0
    /\ fs = {}
    /\ result.kind = "ok"

\* what the extraction and transcription outcomes of a run of the chunking
\* path determine by themselves
OutcomeOfCalls ==
    IF extractLog # <<>> /\ extractLog[Len(extractLog)].outcome # "ok"
        THEN ExtractFailure(extractLog[Len(extractLog)].outcome)
    ELSE IF \A k \in DOMAIN svcLog : ~svcLog[k].ok
        THEN Err("RuntimeError",
                 "Transcription failed: no chunks could be transcribed successfully")
    ELSE Ok(SpaceJoinedFrom(svcLog, 1))

\* C15: cleanup ends for every combination of deletion outcomes, and what
\* transcribe_file returns or raises is what the extraction and transcription
\* outcomes determine, whichever deletions failed.
C15_DeletionFailuresNotFatal ==
    /\ pc \in {"cleanup", "unlink"} => result = None
    /\ (pc = "done" /\ probeLog = <<TRUE>> /\ total_duration[1] # 0) =>
          result = OutcomeOfCalls

C15_Witness ==
    /\ pc = "done"
    /\ failed_deletions = 2
    /\ fs = {1, 2}
    /\ last_unlink = "OSError"
    /\ result = Ok(<<"a", " ", "b">>)

\* every completion call of the run so far raised APIError
EveryCallRaisedAPIError ==
    /\ analyzer.pc # "idle"
    /\ \A k \in DOMAIN analyzer.create_calls : analyzer.create_calls[k] = "APIError"

DownloadSucceeded ==
    /\ downloader.pc = "done"
    /\ downloader.YT_DLP_PATH
    /\ Len(downloader.run_calls) >= 1
    /\ downloader.run_calls[Len(downloader.run_calls)].outcome = "ok"
    /\ downloader.final_exists

\* the output directory was created once and the subprocess was run once, with
\* check=True
DownloadRanOnce ==
    /\ downloader.mkdir_calls = 1
    /\ Len(downloader.run_calls) = 1
    /\ downloader.run_calls[1].check

C18_NoDownloadReturnsNone ==
    downloader.pc # "idle" =>
        /\ downloader.result.kind # "raise"
        /\ ~downloader.YT_DLP_PATH =>
              /\ downloader.mkdir_calls = 0
              /\ downloader.run_calls = <<>>
              /\ downloader.pc = "done" => downloader.result = DownloadReturned(PyNone)
        /\ \A k \in DOMAIN downloader.run_calls :
              downloader.run_calls[k].outcome = "CalledProcessError" =>
                  /\ downloader.pc = "done"
                  /\ downloader.result = DownloadReturned(PyNone)

C18_Witness ==
    /\ downloader.pc = "done"
    /\ downloader.YT_DLP_PATH
    /\ Len(downloader.run_calls) = 1
    /\ downloader.run_calls[1].outcome = "CalledProcessError"
    /\ downloader.result = DownloadReturned(PyNone)

\* the stage functions of steps 2, 3 and 4
LaterStages(after) ==
    IF after = "step1"
        THEN {"transcribe_audio", "save_text_file",
              "extract_raw_bullet_data_from_text", "generate_html_report"}
        ELSE {"save_text_file", "extract_raw_bullet_data_from_text",
              "generate_html_report"}

NoCallOf(names) == \A k \in DOMAIN pipeline.calls : pipeline.calls[k] \notin names

\* C19: a critical stage failure (download without result, a required file
\* missing for a skipped stage, transcription without text) stops the pipeline:
\* no later stage is executed and the process exits with code 2; exit code 0
\* is produced only when all four stages completed without any recorded error.
C19_CriticalFailureStopsExitZeroIsClean ==
    pipeline.pc # "idle" =>
        /\ pipeline.failure \in {"download returned None", "audio file missing"} =>
              /\ pipeline.pc \in {"finally", "exited"}
              /\ pipeline.exit_code = 2
              /\ NoCallOf(LaterStages("step1"))
        /\ pipeline.failure \in {"transcript file missing", "no transcript text"} =>
              /\ pipeline.pc \in {"finally", "exited"}
              /\ pipeline.exit_code = 2
              /\ NoCallOf(LaterStages("step2"))
        /\ (pipeline.pc = "exited" /\ pipeline.failure # "none") => pipeline.exited = 2
        /\ (pipeline.pc = "exited" /\ pipeline.exited = 0) =>
              /\ pipeline.errors = 0
              /\ \E k \in DOMAIN pipeline.calls :
                    pipeline.calls[k] = "generate_html_report"

\* C20: a chunk file gets at most 3 deletion attempts; a second or third one
\* is made only right after a PermissionError on win32; on another platform,
\* or after any other outcome, the file gets exactly one attempt, and no file
\* is listed twice.
C20_RetryOnlyRefusedOnWin32 ==
    /\ attempt <= 2
    /\ (pc = "unlink" /\ attempt >= 1) => (win32 /\ last_unlink = "PermissionError")
    /\ ~win32 => attempt = 0
    /\ (attempt >= 1 /\ pc # "unlink") =>
          last_unlink \in {"ok", "PermissionError", "OSError"}
    /\ \A j, k \in DOMAIN temp_files_to_delete :
          j # k => temp_files_to_delete[j] # temp_files_to_delete[k]

C20_Witness ==
    /\ pc = "cleanup"
    /\ win32
    /\ attempt = 2
    /\ last_unlink = "PermissionError"
    /\ failed_deletions = 1
    /\ pos = 2

\* C21 (as stated): the count of failed deletions is incremented only for a
\* file whose three attempts were all refused with a lock error, that is, by
\* a refused attempt of index max_retries - 1.
C21_CountsOnlyExhaustedLocks ==
    [][failed_deletions' # failed_deletions =>
          /\ pc = "unlink"
          /\ attempt = max_retries - 1
          /\ last_unlink' = "PermissionError"]_vars

\* C21 (amended): the count of failed deletions is the number of files whose
\* deletion ended with an error and which are therefore still on disk: a
\* refused deletion (after the retries on win32, after one attempt elsewhere)
\* or any other error except not-found; each such file is counted once.
C21_CountsEveryFailedDeletion ==
    LET current == IF pc = "unlink" THEN {temp_files_to_delete[pos]} ELSE {}
    IN  /\ failed_deletions = Cardinality((unlinked \ current) \cap fs)
        /\ failed_deletions <= Len(temp_files_to_delete)

C21_Witness ==
    /\ pc = "done"
    /\ ~win32
    /\ failed_deletions = 2
    /\ last_unlink = "OSError"
    /\ Len(temp_files_to_delete) = 3
    /\ fs = {ChunkPath(0), ChunkPath(2)}

\* C22 (as stated): every run that takes the chunking path has passed through
\* cleanup when it terminates, also after a failure of the duration probe.
C22_EveryChunkedRunCleansUp == (pc = "done" /\ ~IsDirect(file_size)) => cleaned

\* a terminated run whose probe and plan succeeded, so that it came to the loop
C22_ReachedLoop == probeLog = <<TRUE>> /\ total_duration[1] # 0

\* C22 (amended): a run that takes the chunking path passes through cleanup
\* before it terminates exactly when it came to the chunk loop, after the
\* loop has completed and after a failed extraction alike; a run whose
\* duration probe or plan failed terminates without cleanup, and has created
\* no chunk file.  A transcription attempt, failed or not, leads back to the
\* loop, and the loop leads to a transcription or to cleanup only.
C22_CleanupExactlyAfterTheLoop ==
    /\ [](/\ (pc = "done" /\ ~IsDirect(file_size)) => (cleaned <=> C22_ReachedLoop)
          /\ pc \in {"cleanup", "unlink"} => cleaned
          /\ pc \in {"size_check", "loop", "transcribe"} => ~cleaned
          /\ ~cleaned => (unlinked = {} /\ (pc = "done" => temp_files_to_delete = <<>>)))
    /\ [][/\ pc = "transcribe" => pc' = "loop"
          /\ pc = "loop" => pc' \in {"transcribe", "cleanup"}
          /\ (pc' = "done" /\ cleaned) => pc = "cleanup"
          /\ cleaned => cleaned']_vars

C22_Witness ==
    /\ pc = "done"
    /\ cleaned
    /\ pending # None
    /\ result = pending
    /\ Len(svcLog) = 1
    /\ ~svcLog[1].ok
    /\ unlinked = {ChunkPath(0)}

\* C23: a chunk whose measured size is still over the limit is sent to the
\* service like any other: the step from the measurement makes exactly one
\* request, for that chunk, appends its text on success and nothing on
\* failure, raises nothing and goes on to the next index; no chunk is ever
\* requested twice.
C23_OversizeChunkIsStillSent ==
    /\ [](\A j, k \in DOMAIN svcLog : j # k => svcLog[j].chunk # svcLog[k].chunk)
    /\ [][(pc = "transcribe" /\ chunk_size > CHUNK_SIZE_LIMIT) =>
             /\ Len(svcLog') = Len(svcLog) + 1
             /\ SubSeq(svcLog', 1, Len(svcLog)) = svcLog
             /\ svcLog'[Len(svcLog')].chunk = ChunkPath(i)
             /\ transcripts' = IF svcLog'[Len(svcLog')].ok
                                 THEN Append(transcripts, svcLog'[Len(svcLog')].text)
                                 ELSE transcripts
             /\ i' = i + 1
             /\ pc' = "loop"
             /\ pending' = None
             /\ result' = None]_vars

C23_Witness ==
    /\ pc = "loop"
    /\ chunk_size > CHUNK_SIZE_LIMIT
    /\ i = 1
    /\ i < num_chunks
    /\ Len(svcLog) = 1
    /\ svcLog[1].ok
    /\ svcLog[1].chunk = ChunkPath(0)
    /\ transcripts = <<svcLog[1].text>>

\* C24: the chunk steps are sequential and in index order: the k-th
\* extraction request is for index k-1; the k-th transcription request is
\* for the chunk of index k-1, whose extraction had succeeded; chunk i is in transcription only with its
\* own extraction as the latest one and all earlier chunks' attempts over;
\* the next extraction is requested only when every extracted chunk has had
\* its attempt; at most one request is ever outstanding.
C24_StepsInIndexOrder ==
    /\ [](/\ \A k \in DOMAIN extractLog : extractLog[k].index = k - 1
          /\ ~IsDirect(file_size) =>
                /\ \A k \in DOMAIN svcLog :
                      /\ svcLog[k].chunk = ChunkPath(k - 1)
                      /\ k <= Len(extractLog)
                      /\ extractLog[k].outcome = "ok"
                /\ Len(extractLog) - Len(svcLog) \in {0, 1}
          /\ pc = "loop" => (Len(extractLog) = i /\ Len(svcLog) = i)
          /\ pc = "transcribe" =>
                /\ Len(extractLog) = i + 1
                /\ Len(svcLog) = i
                /\ extractLog[i + 1].outcome = "ok")
    /\ [][/\ Len(extractLog') > Len(extractLog) =>
                /\ Len(svcLog) = Len(extractLog)
                /\ svcLog' = svcLog
                /\ Len(extractLog') = Len(extractLog) + 1
          /\ Len(svcLog') > Len(svcLog) =>
                /\ extractLog' = extractLog
                /\ Len(svcLog') = Len(svcLog) + 1]_vars

C24_Witness ==
    /\ pc = "transcribe"
    /\ i = 2
    /\ Len(extractLog) = 3
    /\ Len(svcLog) = 2
    /\ ~svcLog[1].ok
    /\ svcLog[2].ok

\* C25: while the chunk loop is running the engine has attempted no
\* deletion: after k completed iterations the k created chunk files, those of
\* indices 0..k-1, are all registered for cleanup and all still on disk, as
\* is the file of the chunk in transcription; deletion attempts are made in
\* the cleanup phase only.
C25_NoDeletionDuringTheLoop ==
    /\ [](pc \in {"loop", "transcribe"} =>
             /\ unlinked = {}
             /\ Len(svcLog) = i
             /\ Len(temp_files_to_delete) = Len(extractLog)
             /\ \A k \in DOMAIN temp_files_to_delete :
                   /\ temp_files_to_delete[k] = ChunkPath(k - 1)
                   /\ temp_files_to_delete[k] \in fs)
    /\ [][/\ unlinked' # unlinked => (pc = "unlink" /\ pc' \in {"unlink", "cleanup"})
          /\ (\E p \in fs : p \notin fs') => pc = "unlink"]_vars

C25_Witness ==
    /\ pc = "loop"
    /\ i = 2
    /\ i < num_chunks
    /\ temp_files_to_delete = <<ChunkPath(0), ChunkPath(1)>>
    /\ fs = {ChunkPath(0), ChunkPath(1)}
    /\ unlinked = {}

\* C26: cleanup takes the registered chunk files in the order of their
\* creation: each new deletion attempt is on the file cleanup has come to,
\* after all attempts on the files before it; every file cleanup has passed
\* and that is still on disk has had an attempt, whatever happened to the
\* files before it, so that at the end of cleanup every registered file that
\* still exists has been attempted, failed deletions or not.
C26_EveryFileGetsItsAttempt ==
    /\ [](/\ \A j, k \in DOMAIN temp_files_to_delete :
                j < k => temp_files_to_delete[j] < temp_files_to_delete[k]
          /\ cleaned =>
                /\ \A k \in DOMAIN temp_files_to_delete :
                      (k < pos /\ temp_files_to_delete[k] \in fs) =>
                          temp_files_to_delete[k] \in unlinked
                /\ \A p \in unlinked : \E k \in DOMAIN temp_files_to_delete :
                      k <= pos /\ temp_files_to_delete[k] = p
          /\ (pc = "done" /\ cleaned) => pos = Len(temp_files_to_delete) + 1)
    /\ [][\A p \in unlinked' \ unlinked :
             /\ p = temp_files_to_delete[pos]
             /\ \A q \in unlinked : \E k \in DOMAIN temp_files_to_delete :
                   k < pos /\ temp_files_to_delete[k] = q]_vars

C26_Witness ==
    /\ pc = "done"
    /\ Len(temp_files_to_delete) = 3
    /\ failed_deletions = 1
    /\ fs = {ChunkPath(0)}
    /\ unlinked = {ChunkPath(0), ChunkPath(1), ChunkPath(2)}

\* C27: once the plan is computed, for every overlap, also one that is not
\* less than max_chunk_duration, the stride is at least 0.1 s, so the start
\* time of every planned chunk is strictly after that of the chunk before,
\* the number of chunks is at most ceil(total_duration / 0.1), and the
\* requested windows start at strictly increasing times.
C27_StrideIsAtLeastTheFloor ==
    (pc # "size_check" /\ C22_ReachedLoop) =>
        /\ QLeq(Q(1, 10), effective_chunk_duration)
        /\ QLess(Q(0, 1), effective_chunk_duration)
        /\ num_chunks >= 1
        \* the plan, looked at when the loop is entered
        /\ (pc = "loop" /\ extractLog = <<>>) =>
              /\ \A k \in 0..num_chunks :
                    QLess(StartTime(k, effective_chunk_duration),
                          StartTime(k + 1, effective_chunk_duration))
              /\ num_chunks <= QCeil(QDiv(total_duration, Q(1, 10)))
        /\ \A k \in DOMAIN extractLog :
              k > 1 => QLess(extractLog[k - 1].start_time, extractLog[k].start_time)

C27_Witness ==
    /\ pc = "done"
    /\ C22_ReachedLoop
    /\ QLeq(max_chunk_duration, QInt(overlap_seconds))
    /\ overlap_seconds >= 1
    /\ effective_chunk_duration = Q(1, 10)
    /\ num_chunks = 3
    /\ Len(extractLog) = 3

\* the number of steps a run can still take, at most: two per remaining
\* chunk and the loop's exit, then one visit and max_retries attempts per
\* registered file and the return
C28_Rank ==
    LET perFile == max_retries + 1
    IN  CASE pc = "size_check" -> (perFile + 2) * MaxChunks + 3
          [] pc = "loop" -> 2 * (num_chunks - i) + 1 + perFile * num_chunks + 1
          [] pc = "transcribe" -> 2 * (num_chunks - i) + perFile * num_chunks + 1
          [] pc = "cleanup" -> perFile * (Len(temp_files_to_delete) - pos + 1) + 1
          [] pc = "unlink" ->
                perFile * (Len(temp_files_to_delete) - pos + 1) - attempt
          [] OTHER -> 0

\* C28: with every external call returning or throwing, every run
\* terminates, with a transcript or an error: each step lowers a
\* non-negative bound on the steps that remain, the third attempt on a file
\* is the last one for it, and the run comes to its end.
C28_EveryRunTerminates ==
    /\ [](/\ C28_Rank >= 0
          /\ pc = "done" <=> result # None)
    /\ [][C28_Rank' < C28_Rank]_vars
    /\ [][(pc = "unlink" /\ attempt >= max_retries - 1) =>
             (pc' = "cleanup" /\ pos' = pos + 1)]_vars
    /\ <>(pc = "done")

C28_Witness ==
    /\ pc = "done"
    /\ win32
    /\ attempt = max_retries - 1
    /\ last_unlink = "PermissionError"
    /\ failed_deletions = 1
    /\ pending = None
    /\ Len(transcripts) = 2
    /\ result = Ok(JoinTexts(transcripts))

\* the extraction calls that have returned successfully, in call order
C30_Extracted == SelectSeq(extractLog, LAMBDA e : e.outcome = "ok")

\* C30: the list registered for cleanup is at every point the list of the
\* output paths of the extraction calls that returned successfully, in index
\* order and without duplicates; the path of a failed extraction is never
\* registered and never gets a deletion attempt, also when the failed call
\* left a file there.
C30_RegisteredAreTheExtracted ==
    /\ temp_files_to_delete =
          [k \in 1..Len(C30_Extracted) |-> ChunkPath(C30_Extracted[k].index)]
    /\ \A j, k \in DOMAIN temp_files_to_delete :
          j < k => temp_files_to_delete[j] < temp_files_to_delete[k]
    /\ \A k \in DOMAIN extractLog :
          extractLog[k].outcome # "ok" =>
              /\ \A j \in DOMAIN temp_files_to_delete :
                    temp_files_to_delete[j] # ChunkPath(extractLog[k].index)
              /\ ChunkPath(extractLog[k].index) \notin unlinked

C30_Witness ==
    /\ pc = "done"
    /\ Len(extractLog) = 2
    /\ extractLog[2].outcome = "CalledProcessError"
    /\ temp_files_to_delete = <<ChunkPath(0)>>
    /\ unlinked = {ChunkPath(0)}
    /\ fs = {ChunkPath(1)}

\* the chunk paths a run has written, opened or unlinked
C29_Touched(r) ==
    runs.created[r] \cup {f.path : f \in runs.opened[r]} \cup runs.removed[r]

\* the chunk paths a run has written or unlinked
C29_Changed(r) == runs.created[r] \cup runs.removed[r]

\* C29 (as stated): two concurrent runs on sources of different names never
\* collide: no chunk path that one run has written, opened or unlinked is
\* written or unlinked by the other, and no run opens a chunk file that the
\* other run wrote; within one run distinct chunk indices have distinct
\* paths.
C29_DifferentNamesNeverCollide ==
    runs.pc = "running" =>
        /\ runs.source[1] # runs.source[2] =>
              /\ C29_Touched(1) \cap C29_Changed(2) = {}
              /\ C29_Touched(2) \cap C29_Changed(1) = {}
              /\ \A r \in RunIds : \A f \in runs.opened[r] : f.by = r
        /\ \A r \in RunIds : \A j, k \in 0..(RunChunks - 1) :
              j # k => ChunkFileName(runs.source[r], j) # ChunkFileName(runs.source[r], k)

====
